---- MODULE Spec2Model ----
(***************************************************************************)
(* Model of src/helpers.rs: the process-wide nonce source next_nonce()     *)
(* over the atomic CUR_NONCE, and the canonical number encoder             *)
(* float_to_string_for_hashing().                                          *)
(*                                                                         *)
(* u64 is modelled with U64Bits bits instead of 64; the program constants  *)
(* 5000, 1000 and 8 keep their values.  Every thread executes the loop of  *)
(* next_nonce() one memory access at a time, so that all interleavings of  *)
(* the clock read, the load, the compare_exchange and the return occur.    *)
(***************************************************************************)
EXTENDS Integers, Sequences, FiniteSets

\* ------------------------------------------------------------ bounds
U64Bits == 14
NumThreads == 2
MaxCalls == 2

Threads == 1..NumThreads

\* u64::MAX of the model's word.
U64Max == 2^U64Bits - 1

\* ------------------------------------------------------------ constants
\* helpers.rs:25  current.saturating_add(5000)
StaleMs == 5000
\* helpers.rs:20  now_ms + 1000
AheadMs == 1000
\* helpers.rs:31  target.saturating_add(1)
NonceStep == 1

\* Wall-clock readings: `timestamp_millis() as u64` turns any i64 into a u64,
\* so a reading may be any word; these are the readings around the two
\* thresholds and around the top of the word.
ClockVals ==
    {0, AheadMs, StaleMs, StaleMs + 1, StaleMs + 2,
     U64Max - AheadMs, U64Max - AheadMs + 1, U64Max}

\* ------------------------------------------------------------ u64 arithmetic
\* The addition wrapping around instead of saturating.
Mutant_AddWraps(a, b) == (a + b) % (U64Max + 1)

\* u64::saturating_add
SaturatingAdd(a, b) == IF a + b > U64Max THEN U64Max ELSE a + b

\* `a + b` on u64 where it does not overflow; see Overflows for where it does.
WrappingAdd(a, b) == (a + b) % (U64Max + 1)

\* `a + b` on u64 overflows.
Overflows(a, b) == a + b > U64Max

\* ------------------------------------------------------------ next_nonce
\* Target with the staleness test made non-strict: rebases already when
\* current is exactly 5000 behind.
Mutant_TargetRebasesAtExactLag(cur_read, now) ==
    IF SaturatingAdd(cur_read, StaleMs) <= now THEN now ELSE cur_read

\* Target without the staleness correction: always continues from current.
Mutant_TargetNeverRebases(cur_read, now) == cur_read

\* helpers.rs:25-29
Target(cur_read, now) ==
    IF SaturatingAdd(cur_read, StaleMs) < now THEN now ELSE cur_read

\* helpers.rs:31
NextValue(cur_read, now) == SaturatingAdd(Target(cur_read, now), NonceStep)

\* helpers.rs:20  the condition of the drift diagnostic, as the machine
\* evaluates it when the addition wraps.
TooFarAhead(cur_read, now) == cur_read > WrappingAdd(now, AheadMs)

\* A plain store in place of the compare_exchange: never fails.
Mutant_CasAlwaysSucceeds(stored, expected) == TRUE

\* helpers.rs:33-38  compare_exchange(current, next) succeeds.
CasSucceeds(stored, expected) == stored = expected

\* ------------------------------------------------------------ float_to_string_for_hashing
\* helpers.rs:45
WIRE_DECIMALS == 8

\* A String is a sequence of one-character strings.
DigitChars == <<"0", "1", "2", "3", "4", "5", "6", "7", "8", "9">>
DigitChar(d) == DigitChars[d + 1]

\* A finite f64 by its exact decimal expansion: the sign bit, the integer
\* part, the first WIRE_DECIMALS fractional digits, and how what follows them
\* compares with half a unit of the last of these digits.
IntParts == {0, 1, 9, 10, 99, 100}
FracDigits == {0, 5, 9}
Rests == {"zero", "below", "half", "above"}
FloatInputs ==
    [neg : BOOLEAN, int : IntParts, frac : [1..WIRE_DECIMALS -> FracDigits],
     rest : Rests]
NoFloat == [neg |-> FALSE, int |-> 0, frac |-> <<>>, rest |-> "none"]

\* The decimal digits of a natural number, most significant first.
RECURSIVE Digits(_)
Digits(n) == IF n < 10 THEN <<n>> ELSE Append(Digits(n \div 10), n % 10)

\* A digit string plus one unit in its last place.
RECURSIVE Increment(_)
Increment(ds) ==
    IF ds = <<>> THEN <<1>>
    ELSE IF ds[Len(ds)] < 9
         THEN [ds EXCEPT ![Len(ds)] = ds[Len(ds)] + 1]
         ELSE Append(Increment(SubSeq(ds, 1, Len(ds) - 1)), 0)

\* Fixed-point formatting rounds to nearest, ties to even.
RoundsUp(x) ==
    \/ x.rest = "above"
    \/ x.rest = "half" /\ x.frac[WIRE_DECIMALS] % 2 = 1

\* helpers.rs:48  format!("{:.*}", WIRE_DECIMALS.into(), x)
Format(x) ==
    LET exact == Digits(x.int) \o x.frac
        ds == IF RoundsUp(x) THEN Increment(exact) ELSE exact
        n == Len(ds) - WIRE_DECIMALS
    IN  (IF x.neg THEN <<"-">> ELSE <<>>)
        \o [i \in 1..n |-> DigitChar(ds[i])]
        \o <<".">>
        \o [i \in 1..WIRE_DECIMALS |-> DigitChar(ds[n + i])]

\* str::ends_with(char)
EndsWith(s, c) == Len(s) > 0 /\ s[Len(s)] = c

\* String::pop
Pop(s) == SubSeq(s, 1, Len(s) - 1)

\* The loop of lines 49-51 run once only: a single trailing zero is removed.
Mutant_StripOneZero(s) == IF EndsWith(s, "0") THEN Pop(s) ELSE s

\* helpers.rs:49-51  while x.ends_with('0') { x.pop(); }
RECURSIVE StripZeros(_)
StripZeros(s) == IF EndsWith(s, "0") THEN StripZeros(Pop(s)) ELSE s

\* Lines 52-54 left out: a bare decimal point stays.
Mutant_KeepPoint(s) == s

\* helpers.rs:52-54  if x.ends_with('.') { x.pop(); }
StripPoint(s) == IF EndsWith(s, ".") THEN Pop(s) ELSE s

\* Lines 55-59 left out: "-0" is returned as it is.
Mutant_KeepNegativeZero(s) == s

\* helpers.rs:55-59  if x == "-0" { "0" } else { x }
FixNegativeZero(s) == IF s = <<"-", "0">> THEN <<"0">> ELSE s

\* helpers.rs:49-59  the trimming steps applied to the formatted string
TrimSteps(s) == FixNegativeZero(StripPoint(StripZeros(s)))

\* The trimming steps run a second time over their own result.
Mutant_TrimTwice(x) == TrimSteps(TrimSteps(Format(x)))

\* helpers.rs:47-60
float_to_string_for_hashing(x) == TrimSteps(Format(x))

\* Inputs for two calls: values around zero, around a carry into the integer
\* part and with integer parts that end in 0.
PairInts == {0, 1, 9, 10}
PairFracs ==
    {<<0, 0, 0, 0, 0, 0, 0, 0>>, <<0, 0, 0, 0, 0, 0, 0, 5>>,
     <<0, 0, 0, 0, 0, 0, 5, 0>>, <<5, 0, 0, 0, 0, 0, 0, 0>>,
     <<0, 0, 0, 0, 0, 0, 0, 9>>, <<9, 9, 9, 9, 9, 9, 9, 9>>}
PairInputs == [neg : BOOLEAN, int : PairInts, frac : PairFracs, rest : Rests]

VARIABLES
    CUR_NONCE,        \* the AtomicU64
    overflow_checks,  \* the build: TRUE panics on integer overflow, FALSE wraps
    pc,               \* per thread: position in next_nonce()
    now_ms,           \* per thread: local now_ms of the attempt
    current,          \* per thread: local current of the attempt
    logged,           \* per thread: the attempt emitted the diagnostic
    started,          \* per thread: number of returns seen at invocation
    loaded_at,        \* per thread: number of successful compare_exchanges
                      \* made before the attempt's load
    calls,            \* number of invocations so far
    issued,           \* history: one record per successful compare_exchange
    returned,         \* history: one record per return, in order of return
    enc_x,            \* the argument x of float_to_string_for_hashing
    enc_out,          \* its returned String
    enc_y,            \* the argument of a second call
    enc_out_y,        \* the String the second call returned
    enc_pc            \* "idle", "call" before it runs, "second" between two
                      \* calls, "done" once the last call returned

nonce_vars == <<CUR_NONCE, overflow_checks, pc, now_ms, current, logged,
                started, loaded_at, calls, issued, returned>>
enc_vars == <<enc_x, enc_out, enc_y, enc_out_y, enc_pc>>
vars == <<nonce_vars, enc_vars>>

\* No call of float_to_string_for_hashing is in progress.
EncIdle ==
    /\ enc_x = NoFloat
    /\ enc_out = <<>>
    /\ enc_y = NoFloat
    /\ enc_out_y = <<>>
    /\ enc_pc = "idle"

\* No call of next_nonce has been made.
NonceIdle ==
    /\ overflow_checks \in BOOLEAN
    /\ pc = [t \in Threads |-> "idle"]
    /\ now_ms = [t \in Threads |-> 0]
    /\ current = [t \in Threads |-> 0]
    /\ logged = [t \in Threads |-> FALSE]
    /\ started = [t \in Threads |-> 0]
    /\ loaded_at = [t \in Threads |-> 0]
    /\ calls = 0
    /\ issued = <<>>
    /\ returned = <<>>

\* lazy_static CUR_NONCE = AtomicU64::new(now_timestamp_ms())   helpers.rs:106-108
Init ==
    /\ CUR_NONCE \in ClockVals
    /\ NonceIdle
    /\ EncIdle

\* A thread calls next_nonce()   helpers.rs:15-16
Invoke(t) ==
    /\ pc[t] = "idle"
    /\ calls < MaxCalls
    /\ calls' = calls + 1
    /\ pc' = [pc EXCEPT ![t] = "now"]
    /\ started' = [started EXCEPT ![t] = Len(returned)]
    /\ UNCHANGED <<CUR_NONCE, overflow_checks, now_ms, current, logged,
                   loaded_at, issued, returned, enc_vars>>

\* let now_ms = now_timestamp_ms();   helpers.rs:17, 10-13
ReadClock(t) ==
    /\ pc[t] = "now"
    /\ \E n \in ClockVals : now_ms' = [now_ms EXCEPT ![t] = n]
    /\ pc' = [pc EXCEPT ![t] = "load"]
    /\ UNCHANGED <<CUR_NONCE, overflow_checks, current, logged, started,
                   loaded_at, calls, issued, returned, enc_vars>>

\* let current = CUR_NONCE.load(Relaxed);   helpers.rs:18
Load(t) ==
    /\ pc[t] = "load"
    /\ current' = [current EXCEPT ![t] = CUR_NONCE]
    /\ loaded_at' = [loaded_at EXCEPT ![t] = Len(issued)]
    /\ pc' = [pc EXCEPT ![t] = "check"]
    /\ UNCHANGED <<CUR_NONCE, overflow_checks, now_ms, logged, started,
                   calls, issued, returned, enc_vars>>

\* if current > now_ms + 1000 { info!(..) }   helpers.rs:20-22
\* `now_ms + 1000` is an unchecked u64 addition: with overflow checks the
\* thread panics when it overflows, without them it wraps.
Check(t) ==
    /\ pc[t] = "check"
    /\ IF Overflows(now_ms[t], AheadMs) /\ overflow_checks
         THEN /\ pc' = [pc EXCEPT ![t] = "panicked"]
              /\ UNCHANGED logged
         ELSE /\ pc' = [pc EXCEPT ![t] = "cas"]
              /\ logged' = [logged EXCEPT ![t] = TooFarAhead(current[t], now_ms[t])]
    /\ UNCHANGED <<CUR_NONCE, overflow_checks, now_ms, current, started,
                   loaded_at, calls, issued, returned, enc_vars>>

\* compare_exchange(current, next) => Ok(_)   helpers.rs:25-39
CasOk(t) ==
    /\ pc[t] = "cas"
    /\ CasSucceeds(CUR_NONCE, current[t])
    /\ CUR_NONCE' = NextValue(current[t], now_ms[t])
    /\ issued' = Append(issued,
                        [thread |-> t, now |-> now_ms[t], cur |-> current[t],
                         target |-> Target(current[t], now_ms[t]),
                         stored |-> CUR_NONCE', logged |-> logged[t]])
    /\ pc' = [pc EXCEPT ![t] = "ret"]
    /\ UNCHANGED <<overflow_checks, now_ms, current, logged, started,
                   loaded_at, calls, returned, enc_vars>>

\* compare_exchange(current, next) => Err(_) => continue   helpers.rs:33-40
CasFail(t) ==
    /\ pc[t] = "cas"
    /\ ~CasSucceeds(CUR_NONCE, current[t])
    /\ pc' = [pc EXCEPT ![t] = "now"]
    /\ now_ms' = [now_ms EXCEPT ![t] = 0]
    /\ current' = [current EXCEPT ![t] = 0]
    /\ logged' = [logged EXCEPT ![t] = FALSE]
    /\ loaded_at' = [loaded_at EXCEPT ![t] = 0]
    /\ UNCHANGED <<CUR_NONCE, overflow_checks, started, calls, issued,
                   returned, enc_vars>>

\* return target   helpers.rs:39
Return(t) ==
    /\ pc[t] = "ret"
    /\ returned' = Append(returned,
                          [thread |-> t,
                           value |-> Target(current[t], now_ms[t]),
                           now |-> now_ms[t],
                           started |-> started[t]])
    /\ pc' = [pc EXCEPT ![t] = "idle"]
    /\ now_ms' = [now_ms EXCEPT ![t] = 0]
    /\ current' = [current EXCEPT ![t] = 0]
    /\ logged' = [logged EXCEPT ![t] = FALSE]
    /\ loaded_at' = [loaded_at EXCEPT ![t] = 0]
    /\ started' = [started EXCEPT ![t] = 0]
    /\ UNCHANGED <<CUR_NONCE, overflow_checks, calls, issued, enc_vars>>

Step(t) ==
    \/ Invoke(t)
    \/ ReadClock(t)
    \/ Load(t)
    \/ Check(t)
    \/ CasOk(t)
    \/ CasFail(t)
    \/ Return(t)

Next == \E t \in Threads : Step(t)

Spec == Init /\ [][Next]_vars

\* Threads run in parallel on their own cores: a thread that can take a step
\* eventually takes one.
FairSpec == Spec /\ \A t \in Threads : WF_vars(Step(t))

\* ------------------------------------------------------------ the encoder alone
\* A caller holds some finite f64.
InitEnc ==
    /\ CUR_NONCE = 0
    /\ NonceIdle
    /\ overflow_checks = FALSE
    /\ enc_x \in FloatInputs
    /\ enc_out = <<>>
    /\ enc_y = NoFloat
    /\ enc_out_y = <<>>
    /\ enc_pc = "call"

\* float_to_string_for_hashing(x)   helpers.rs:47-60
Encode ==
    /\ enc_pc = "call"
    /\ enc_out' = float_to_string_for_hashing(enc_x)
    /\ enc_pc' = "done"
    /\ UNCHANGED <<enc_x, enc_y, enc_out_y, nonce_vars>>

NextEnc == Encode

SpecEnc == InitEnc /\ [][NextEnc]_vars

\* ------------------------------------------------------------ two calls of the encoder
\* A caller holds two finite f64s.
InitPair ==
    /\ CUR_NONCE = 0
    /\ NonceIdle
    /\ overflow_checks = FALSE
    /\ enc_x \in PairInputs
    /\ enc_y \in PairInputs
    /\ enc_out = <<>>
    /\ enc_out_y = <<>>
    /\ enc_pc = "call"

\* float_to_string_for_hashing(x)   helpers.rs:47-60
EncodeFirst ==
    /\ enc_pc = "call"
    /\ enc_out' = float_to_string_for_hashing(enc_x)
    /\ enc_pc' = "second"
    /\ UNCHANGED <<enc_x, enc_y, enc_out_y, nonce_vars>>

\* float_to_string_for_hashing(y)   helpers.rs:47-60
EncodeSecond ==
    /\ enc_pc = "second"
    /\ enc_out_y' = float_to_string_for_hashing(enc_y)
    /\ enc_pc' = "done"
    /\ UNCHANGED <<enc_x, enc_y, enc_out, nonce_vars>>

NextPair == EncodeFirst \/ EncodeSecond

SpecPair == InitPair /\ [][NextPair]_vars

\* ============================================================ properties
Min(a, b) == IF a < b THEN a ELSE b

\* Two successive successful compare_exchanges by one thread, with no other
\* thread's in between: entries i and i + 1 of the issue history.
BackToBack(i) ==
    /\ i \in 1..(Len(issued) - 1)
    /\ issued[i].thread = issued[i + 1].thread

\* C1: no two calls of next_nonce(), by the same or different threads, return
\* the same value, whatever the clock readings and the initial stored state.
C1_ReturnedValuesUnique ==
    \A i, j \in 1..Len(returned) :
        i # j => returned[i].value # returned[j].value

\* C2 (as claimed): at the moment a call returns v, v is strictly greater than
\* every value any call has returned before that moment.
C2_ReturnOrderIncreasing ==
    \A i, j \in 1..Len(returned) :
        i < j => returned[j].value > returned[i].value

\* C2 (amended): at the moment a call's compare_exchange succeeds with target
\* v, v is at least every target issued by an earlier successful
\* compare_exchange, and strictly greater unless v is the maximum word; the
\* order of the returns need not follow the order of issue.
C2_IssueOrderIncreasing ==
    \A i, j \in 1..Len(issued) :
        i < j => /\ issued[j].target >= issued[i].target
                 /\ issued[j].target < U64Max
                      => issued[j].target > issued[i].target

\* C2 witness: two threads have returned, the one whose compare_exchange came
\* second returned first (the other was delayed before its return).
C2_Witness_DelayedReturn ==
    /\ Len(returned) >= 2
    /\ Len(issued) >= 2
    /\ returned[1].thread = issued[2].thread
    /\ returned[2].thread = issued[1].thread
    /\ returned[1].thread # returned[2].thread
    /\ returned[1].value > returned[2].value

\* C3: if call A has returned before call B is invoked, B returns a strictly
\* greater value than A, also when the clock stands still or moves backward.
C3_LaterCallGreater ==
    \A i, j \in 1..Len(returned) :
        i <= returned[j].started => returned[j].value > returned[i].value

\* C4 (as claimed): a successful attempt returns now_ms when current + 5000 <
\* now_ms and current otherwise, and the stored state afterwards is the
\* returned value plus 1.
C4_TargetRuleStoredPlusOne ==
    \A i \in 1..Len(issued) :
        /\ issued[i].target =
             (IF issued[i].cur + StaleMs < issued[i].now
                THEN issued[i].now ELSE issued[i].cur)
        /\ issued[i].stored = issued[i].target + 1

\* C4 (amended): as claimed, except that the stored state afterwards is the
\* returned value plus 1 capped at the maximum word.
C4_TargetRuleStoredCapped ==
    \A i \in 1..Len(issued) :
        /\ issued[i].target =
             (IF issued[i].cur + StaleMs < issued[i].now
                THEN issued[i].now ELSE issued[i].cur)
        /\ issued[i].stored = Min(issued[i].target + 1, U64Max)

\* C4 witness: one attempt succeeded with current exactly 5000 behind the
\* clock, one with current further behind, and one returned the maximum word.
C4_Witness_ExactRebaseAndCap ==
    /\ \E i \in 1..Len(issued) : issued[i].cur + StaleMs = issued[i].now
    /\ \E i \in 1..Len(issued) : issued[i].cur + StaleMs < issued[i].now
    /\ \E i \in 1..Len(issued) : issued[i].target = U64Max

\* C5 (as claimed): a call returns `previous`, no other call happens, the clock
\* advances by more than 5000 before the same caller's next call: that call
\* returns the clock value it read and not previous + 1.
C5_SleepRebasesToClock ==
    \A i \in 1..(Len(issued) - 1) :
        BackToBack(i) /\ issued[i + 1].now - issued[i].now > StaleMs
            => /\ issued[i + 1].target = issued[i + 1].now
               /\ issued[i + 1].target # issued[i].target + 1

\* C5 (amended): a call returns `previous`, no other call happens, and the
\* clock value read by the same caller's next call exceeds previous + 5001:
\* that call returns the clock value it read and not previous + 1.
C5_LagRebasesToClock ==
    \A i \in 1..(Len(issued) - 1) :
        BackToBack(i) /\ issued[i + 1].now > issued[i].target + StaleMs + 1
            => /\ issued[i + 1].target = issued[i + 1].now
               /\ issued[i + 1].target # issued[i].target + 1

\* C5 witness: a caller's second call read a clock more than 5001 above the
\* value its first call returned, the clock having advanced by more than 5000.
C5_Witness_SleptCaller ==
    \E i \in 1..(Len(issued) - 1) :
        /\ BackToBack(i)
        /\ issued[i + 1].now > issued[i].target + StaleMs + 1
        /\ issued[i + 1].now - issued[i].now > StaleMs

\* C6: in back-to-back calls of one caller, once the stored state is at or
\* ahead of the clock, each returned value is the previous one plus 1.
C6_BurstStepsByOne ==
    \A i \in 1..(Len(issued) - 1) :
        BackToBack(i) /\ issued[i + 1].cur >= issued[i + 1].now
            => issued[i + 1].target = issued[i].target + 1

\* C7: no attempt of next_nonce() ends in an arithmetic overflow or other
\* failure, for any stored state and any clock reading.
C7_NoAttemptFails ==
    \A t \in Threads : pc[t] # "panicked"

\* C8: with finitely many calls and fair scheduling every call eventually
\* returns, and whenever some call is in progress some call eventually returns.
C8_CallsReturn ==
    /\ \A t \in Threads : (pc[t] # "idle") ~> (pc[t] = "idle")
    /\ \A n \in 0..MaxCalls :
           ((\E t \in Threads : pc[t] # "idle") /\ Len(returned) = n)
               ~> (Len(returned) > n)

\* C9: an attempt emits the drift diagnostic exactly when the stored state it
\* read exceeds now_ms + 1000, and the diagnostic changes nothing else: the
\* attempt goes on to its compare_exchange with the same target.
C9_DiagnosticExactAndInert ==
    \A t \in Threads :
        /\ pc[t] # "panicked"
        /\ pc[t] \in {"cas", "ret"}
             => (logged[t] <=> current[t] > now_ms[t] + AheadMs)

\* The grammar -?[0-9]+(\.[0-9]{1,8})? with no trailing fractional zero.
IsDigit(c) == \E i \in 1..Len(DigitChars) : c = DigitChars[i]
WellFormed(s) ==
    LET body == IF Len(s) > 0 /\ s[1] = "-" THEN Tail(s) ELSE s
        points == {i \in 1..Len(body) : body[i] = "."}
    IN  /\ Len(body) > 0
        /\ \A i \in (1..Len(body)) \ points : IsDigit(body[i])
        /\ \/ points = {}
           \/ \E p \in points :
                /\ points = {p}
                /\ p > 1
                /\ Len(body) - p \in 1..WIRE_DECIMALS
                /\ body[Len(body)] # "0"

\* C10: for every finite input the returned string is non-empty, is an
\* optional '-', one or more digits and optionally a '.' followed by one to
\* eight digits, and ends neither in '.' nor in a fractional '0'.
C10_OutputWellFormed ==
    enc_pc = "done" => WellFormed(enc_out)

\* C10 witness: the negative input -100.00000000 was encoded to "-100": the
\* fractional zeros and the bare point are gone, the integer zeros are kept.
C10_Witness_Trimmed ==
    /\ enc_pc = "done"
    /\ enc_x.neg /\ enc_x.int = 100 /\ enc_x.rest = "zero"
    /\ \A i \in 1..WIRE_DECIMALS : enc_x.frac[i] = 0
    /\ enc_out = <<"-", "1", "0", "0">>

\* The parts of a number string: its sign, the digits before the point and
\* the digits after it.
Negative(s) == Len(s) > 0 /\ s[1] = "-"
Unsigned(s) == IF Negative(s) THEN Tail(s) ELSE s
PointAt(s) ==
    IF \E i \in 1..Len(s) : s[i] = "."
      THEN CHOOSE i \in 1..Len(s) : s[i] = "."
      ELSE Len(s) + 1
HasPoint(s) == PointAt(s) <= Len(s)
IntDigits(s) == SubSeq(Unsigned(s), 1, PointAt(Unsigned(s)) - 1)
FracPart(s) == SubSeq(Unsigned(s), PointAt(Unsigned(s)) + 1, Len(Unsigned(s)))

\* The string denotes zero: it has a digit and every digit of it is 0.
DenotesZero(s) ==
    /\ \E i \in 1..Len(s) : IsDigit(s[i])
    /\ \A i \in 1..Len(s) : s[i] \in {"-", ".", "0"}

\* The number of significant fractional digits: the place of the last
\* fractional digit that is not 0, or 0.
SignificantFrac(s) ==
    LET nz == {i \in 1..Len(FracPart(s)) : FracPart(s)[i] # "0"}
    IN  IF nz = {} THEN 0 ELSE CHOOSE i \in nz : \A j \in nz : j <= i

\* C11: the encoder returns exactly "0" for every input whose 8-digit
\* fixed-point formatting is zero with either sign, and it never returns "-0"
\* or any other string denoting zero.
C11_ZeroIsCanonical ==
    enc_pc = "done" =>
        /\ DenotesZero(Format(enc_x)) => enc_out = <<"0">>
        /\ DenotesZero(enc_out) => enc_out = <<"0">>

\* C11 witness: a negative magnitude that rounds to -0.00000000 was encoded
\* to "0".
C11_Witness_NegativeRoundsToZero ==
    /\ enc_pc = "done"
    /\ enc_x.neg /\ enc_x.int = 0 /\ enc_x.rest = "below"
    /\ Format(enc_x) = <<"-", "0", ".", "0", "0", "0", "0", "0", "0", "0", "0">>
    /\ enc_out = <<"0">>

\* C12: the returned string denotes the same decimal value as the 8-digit
\* fixed-point formatting of the input: the same integer digits (trailing
\* zeros of the integer part included), exactly the k significant fractional
\* digits, a decimal point only when k > 0, and the '-' of the formatting
\* unless the value is zero.
C12_SameValueAsFormatting ==
    enc_pc = "done" =>
        LET f == Format(enc_x)
            k == SignificantFrac(f)
        IN  /\ IntDigits(enc_out) = IntDigits(f)
            /\ FracPart(enc_out) = SubSeq(FracPart(f), 1, k)
            /\ HasPoint(enc_out) <=> k > 0
            /\ Negative(enc_out) <=> (Negative(f) /\ ~DenotesZero(f))

\* C12 witness: -100.05000000 was encoded to "-100.05" (integer zeros kept,
\* two significant fractional digits).
C12_Witness_IntegerZerosKept ==
    /\ enc_pc = "done"
    /\ enc_x.neg /\ enc_x.int = 100 /\ enc_x.rest = "zero"
    /\ enc_x.frac = <<0, 5, 0, 0, 0, 0, 0, 0>>
    /\ enc_out = <<"-", "1", "0", "0", ".", "0", "5">>

\* Two fixed-point formattings denote the same decimal value: they are the
\* same string, or both are zero (-0 and 0 counted as one value).
SameValue(f, g) == f = g \/ (DenotesZero(f) /\ DenotesZero(g))

\* C13 (as claimed): two inputs yield the same string if and only if their
\* 8-digit formattings denote the same decimal value, and applying the
\* trimming steps again to a returned string leaves it unchanged.
C13_CanonicalAndIdempotent ==
    enc_pc = "done" /\ enc_y # NoFloat =>
        /\ enc_out = enc_out_y <=> SameValue(Format(enc_x), Format(enc_y))
        /\ TrimSteps(enc_out) = enc_out
        /\ TrimSteps(enc_out_y) = enc_out_y

\* C13 (amended): two inputs yield the same string if and only if their
\* 8-digit formattings denote the same decimal value; applying the trimming
\* steps again to a returned string leaves it unchanged exactly when the
\* string does not end in '0' (an integral result ending in 0 would lose its
\* trailing zeros).
C13_CanonicalTrimFixedUnlessEndsInZero ==
    enc_pc = "done" /\ enc_y # NoFloat =>
        /\ enc_out = enc_out_y <=> SameValue(Format(enc_x), Format(enc_y))
        /\ TrimSteps(enc_out) = enc_out <=> ~EndsWith(enc_out, "0")
        /\ TrimSteps(enc_out_y) = enc_out_y <=> ~EndsWith(enc_out_y, "0")

\* C13 witness: two different inputs of the same formatted value, 9.99999999..
\* (rounded up with a carry) and 10.00000000.., were both encoded to "10", a
\* result that ends in an integer zero.
C13_Witness_TwoCalls ==
    /\ enc_pc = "done"
    /\ enc_x.int = 9 /\ enc_x.rest = "above" /\ ~enc_x.neg
    /\ enc_out = <<"1", "0">>
    /\ enc_y.int = 10 /\ enc_y.rest = "below"
    /\ enc_out_y = enc_out
    /\ enc_x # enc_y

\* C14: an attempt's compare_exchange succeeds if and only if no other call
\* completed a successful compare_exchange between the attempt's load and its
\* own compare_exchange; two attempts that read the same stored state are
\* never both issued a nonce from it.
C14_CasSucceedsIffUndisturbed ==
    /\ \A t \in Threads :
         pc[t] = "cas" =>
            (CUR_NONCE = current[t] <=> Len(issued) = loaded_at[t])
    /\ \A i, j \in 1..Len(issued) : i # j => issued[i].cur # issued[j].cur

\* C15: the stored state never decreases: every successful compare_exchange
\* stores a value at least the one it replaced, namely target + 1 capped at
\* the maximum word (never wrapped), and nothing else changes the stored
\* state: each successful compare_exchange replaced exactly what the one
\* before it stored, and the state is what the last one stored.
C15_StoredNeverDecreases ==
    /\ \A i \in 1..Len(issued) :
         /\ issued[i].stored >= issued[i].cur
         /\ issued[i].stored = Min(issued[i].target + 1, U64Max)
    /\ \A i \in 1..(Len(issued) - 1) : issued[i + 1].cur = issued[i].stored
    /\ issued # <<>> => CUR_NONCE = issued[Len(issued)].stored

\* C15 witness: after a first successful compare_exchange a second one
\* rebased to a clock at the maximum word, so that target + 1 was capped.
C15_Witness_CappedAtMax ==
    /\ Len(issued) = 2
    /\ issued[2].cur < U64Max
    /\ issued[2].target = U64Max
    /\ issued[2].stored = U64Max
    /\ CUR_NONCE = U64Max

\* C16: in every reachable state the stored state is strictly greater than
\* every nonce issued so far, whether or not the issuing call has returned.
C16_StoredAboveIssued ==
    \A i \in 1..Len(issued) : CUR_NONCE > issued[i].target

\* C17: every nonce returned is at most 5000 below the clock value its
\* attempt read; there is no upper bound (see the witness).
C17_AtMostStaleBehindClock ==
    \A i \in 1..Len(returned) :
        returned[i].value + StaleMs >= returned[i].now

\* C17 witness: a call that read the clock 0 returned the maximum word: the
\* returned value is ahead of the clock by the whole range of the word.
C17_Witness_FarAheadOfClock ==
    \E i \in 1..Len(returned) :
        returned[i].now = 0 /\ returned[i].value = U64Max

====
